---- MODULE Spec2Model ----
(***************************************************************************)
(* A model of the computus package: the Easter calculation (anonymous      *)
(* Gregorian algorithm), the table of feasts relative to Easter and its    *)
(* resolver, the fixed-name accessors, and the Sunday letters.             *)
(*                                                                         *)
(* A time.Time value is always midnight UTC here, so it is modelled as the *)
(* number of days since January 1 of year 1 (Go's internal zero instant):  *)
(* the zero time.Time{} is day 0.  Go's integer / and % truncate toward    *)
(* zero; they are GoDiv and GoMod.                                         *)
(***************************************************************************)
EXTENDS Integers, Sequences, FiniteSets, TLC

VARIABLES
    RelativeToEasterDays, \* the package-level table (a Go var)
    pc,                   \* "idle", "returned" or "panicked"
    op,                   \* the operation last called
    year,                 \* its year argument
    name,                 \* its name argument ("" when it takes none)
    ret,                  \* the tuple of values it returned (<<>> on panic)
    panicMsg,             \* the panic value ("" when it returned)
    earlier               \* an earlier call and its outcome, kept by the caller

vars == <<RelativeToEasterDays, pc, op, year, name, ret, panicMsg, earlier>>

----------------------------------------------------------------------------
(* The year range the tests iterate over, and the bounds of the model: the  *)
(* date operations are called with the years of the tests' range and a     *)
(* margin on either side, the leap-year rule with every year of AnyYears   *)
(* (negative years included, where Go's % yields negative remainders).     *)

BeginYear == 1583
EndYear == 3000
YearsBefore == 20
YearsAfter == 20
WideYear == 3400

Years == (BeginYear - YearsBefore)..(EndYear + YearsAfter)

AnyYears == (-WideYear)..WideYear

----------------------------------------------------------------------------
(* Go integer arithmetic: / and % truncate toward zero (divisor > 0 here). *)

GoDiv(x, y) == IF x >= 0 THEN x \div y ELSE -((-x) \div y)

GoMod(x, y) == x - y * GoDiv(x, y)

----------------------------------------------------------------------------
(* The parts of Go's time package the code calls. *)

timeIsLeap(y) == y % 4 = 0 /\ (y % 100 # 0 \/ y % 400 = 0)

daysBefore == <<0, 31, 59, 90, 120, 151, 181, 212, 243, 273, 304, 334, 365>>

daysSinceEpoch(y) ==
    LET p == y - 1
    IN  365 * p + (p \div 4) - (p \div 100) + (p \div 400)

\* time.Date(year, month, day, 0, 0, 0, 0, time.UTC): the month is normalised
\* into 1..12 (carrying into the year), the day is added as a day count.
Date(y, month, day) ==
    LET m0 == month - 1
        ny == y + (m0 \div 12)
        m  == (m0 % 12) + 1
    IN  daysSinceEpoch(ny) + daysBefore[m]
        + (IF timeIsLeap(ny) /\ m >= 3 THEN 1 ELSE 0) + (day - 1)

\* Time.date: the year and the day of the year (0-based) of an instant.
absDate(t) ==
    LET n400 == t \div 146097
        r400 == t % 146097
        q100 == r400 \div 36524
        n100 == IF q100 = 4 THEN 3 ELSE q100
        r100 == r400 - 36524 * n100
        n4   == r100 \div 1461
        r4   == r100 - 1461 * n4
        q1   == r4 \div 365
        n1   == IF q1 = 4 THEN 3 ELSE q1
        yday == r4 - 365 * n1
    IN  [year |-> 400 * n400 + 100 * n100 + 4 * n4 + n1 + 1, yday |-> yday]

TimeYear(t) == absDate(t).year

\* The month and the day of the month, from the day of the year.
monthDay(t) ==
    LET a    == absDate(t)
        leap == timeIsLeap(a.year)
        d    == IF leap /\ a.yday > 59 THEN a.yday - 1 ELSE a.yday
        m    == CHOOSE k \in 1..12 : daysBefore[k] <= d /\ d < daysBefore[k + 1]
    IN  IF leap /\ a.yday = 59
        THEN [month |-> 2, day |-> 29]
        ELSE [month |-> m, day |-> d - daysBefore[m] + 1]

TimeMonth(t) == monthDay(t).month

TimeDay(t) == monthDay(t).day

\* Time.Weekday: 0 = Sunday .. 6 = Saturday (January 1 of year 1 is a Monday).
Weekday(t) == (t + 1) % 7

\* Time.AddDate(years, months, days).
AddDate(t, years, months, days) ==
    Date(TimeYear(t) + years, TimeMonth(t) + months, TimeDay(t) + days)

\* Time.Format("2006-01-02"), as the triple the text spells.
Format(t) == <<TimeYear(t), TimeMonth(t), TimeDay(t)>>

\* The zero time.Time{}.
ZeroTime == Date(1, 1, 1)

----------------------------------------------------------------------------
(* computus.go *)

EmberWedLent == "Ember Wednesday (Lent)"
EmberFriLent == "Ember Friday (Lent)"
EmberSatLent == "Ember Saturday (Lent)"
EmberWedPent == "Ember Wednesday (Pentecost)"
EmberFriPent == "Ember Friday (Pentecost)"
EmberSatPent == "Ember Saturday (Pentecost)"

RelativeToEaster(n, o) == [Name |-> n, Offset |-> o]

\* The table without the entries after Holy Saturday other than Ascension,
\* Pentecost and Corpus Christi, and without the Ember days after Pentecost.
ShortRelativeToEasterDays == <<
    RelativeToEaster("Septuagesima Sunday", -63),
    RelativeToEaster("Sexagesima Sunday", -56),
    RelativeToEaster("Quinguagesima Sunday", -49),
    RelativeToEaster("Ash Wednesday", -46),
    RelativeToEaster("Ember Wednesday (Lent)", -39),
    RelativeToEaster("Ember Friday (Lent)", -37),
    RelativeToEaster("Ember Saturday (Lent)", -36),
    RelativeToEaster("Passion Sunday", -14),
    RelativeToEaster("Palm Sunday", -7),
    RelativeToEaster("Spy Wednesday", -4),
    RelativeToEaster("Holy Thursday", -3),
    RelativeToEaster("Good Friday", -2),
    RelativeToEaster("Holy Saturday", -1),
    RelativeToEaster("Ascension", 39),
    RelativeToEaster("Pentecost", 49),
    RelativeToEaster("Corpus Christi", 60) >>

\* The table with the entry of Easter Tuesday named "Easter Monday" again.
DuplicateRelativeToEasterDays == <<
    RelativeToEaster("Septuagesima Sunday", -63),
    RelativeToEaster("Sexagesima Sunday", -56),
    RelativeToEaster("Quinguagesima Sunday", -49),
    RelativeToEaster("Ash Wednesday", -46),
    RelativeToEaster(EmberWedLent, -39),
    RelativeToEaster(EmberFriLent, -37),
    RelativeToEaster(EmberSatLent, -36),
    RelativeToEaster("Passion Sunday", -14),
    RelativeToEaster("Palm Sunday", -7),
    RelativeToEaster("Spy Wednesday", -4),
    RelativeToEaster("Holy Thursday", -3),
    RelativeToEaster("Good Friday", -2),
    RelativeToEaster("Holy Saturday", -1),
    RelativeToEaster("Easter Monday", 1),
    RelativeToEaster("Easter Monday", 2),
    RelativeToEaster("The Octave of Easter (Low Sunday)", 7),
    RelativeToEaster("Ascension", 39),
    RelativeToEaster("Pentecost", 49),
    RelativeToEaster(EmberWedPent, 52),
    RelativeToEaster(EmberFriPent, 54),
    RelativeToEaster(EmberSatPent, 55),
    RelativeToEaster("Trinity Sunday", 56),
    RelativeToEaster("Corpus Christi", 60) >>

\* The table with Ascension counted as the fortieth day after Easter.
FortyRelativeToEasterDays == <<
    RelativeToEaster("Septuagesima Sunday", -63),
    RelativeToEaster("Sexagesima Sunday", -56),
    RelativeToEaster("Quinguagesima Sunday", -49),
    RelativeToEaster("Ash Wednesday", -46),
    RelativeToEaster(EmberWedLent, -39),
    RelativeToEaster(EmberFriLent, -37),
    RelativeToEaster(EmberSatLent, -36),
    RelativeToEaster("Passion Sunday", -14),
    RelativeToEaster("Palm Sunday", -7),
    RelativeToEaster("Spy Wednesday", -4),
    RelativeToEaster("Holy Thursday", -3),
    RelativeToEaster("Good Friday", -2),
    RelativeToEaster("Holy Saturday", -1),
    RelativeToEaster("Easter Monday", 1),
    RelativeToEaster("Easter Tuesday", 2),
    RelativeToEaster("The Octave of Easter (Low Sunday)", 7),
    RelativeToEaster("Ascension", 40),
    RelativeToEaster("Pentecost", 49),
    RelativeToEaster(EmberWedPent, 52),
    RelativeToEaster(EmberFriPent, 54),
    RelativeToEaster(EmberSatPent, 55),
    RelativeToEaster("Trinity Sunday", 56),
    RelativeToEaster("Corpus Christi", 60) >>

InitialRelativeToEasterDays == <<
    RelativeToEaster("Septuagesima Sunday", -63),
    RelativeToEaster("Sexagesima Sunday", -56),
    RelativeToEaster("Quinguagesima Sunday", -49),
    RelativeToEaster("Ash Wednesday", -46),
    RelativeToEaster(EmberWedLent, -39),
    RelativeToEaster(EmberFriLent, -37),
    RelativeToEaster(EmberSatLent, -36),
    RelativeToEaster("Passion Sunday", -14),
    RelativeToEaster("Palm Sunday", -7),
    RelativeToEaster("Spy Wednesday", -4),
    RelativeToEaster("Holy Thursday", -3),
    RelativeToEaster("Good Friday", -2),
    RelativeToEaster("Holy Saturday", -1),
    RelativeToEaster("Easter Monday", 1),
    RelativeToEaster("Easter Tuesday", 2),
    RelativeToEaster("The Octave of Easter (Low Sunday)", 7),
    RelativeToEaster("Ascension", 39),
    RelativeToEaster("Pentecost", 49),
    RelativeToEaster(EmberWedPent, 52),
    RelativeToEaster(EmberFriPent, 54),
    RelativeToEaster(EmberSatPent, 55),
    RelativeToEaster("Trinity Sunday", 56),
    RelativeToEaster("Corpus Christi", 60) >>

\* EasterTerms without the correction m (the month and day from h + l + 114).
EasterTermsNoM(y) ==
    LET a == GoMod(y, 19)
        b == GoDiv(y, 100)
        c == GoMod(y, 100)
        d == GoDiv(b, 4)
        e == GoMod(b, 4)
        f == GoDiv(b + 8, 25)
        g == GoDiv(b - f + 1, 3)
        h == GoMod(19 * a + b - d - g + 15, 30)
        i == GoDiv(c, 4)
        k == GoMod(c, 4)
        l == GoMod(32 + 2 * e + 2 * i - h - k, 7)
    IN  [a |-> a, b |-> b, c |-> c, d |-> d, e |-> e, f |-> f, g |-> g,
         h |-> h, i |-> i, k |-> k, l |-> l, m |-> 0,
         month |-> GoDiv(h + l + 114, 31),
         day   |-> GoMod(h + l + 114, 31) + 1]

\* EasterTerms with 4 (congruent to 32 modulo 7) for the constant 32 of l.
EasterTermsL4(y) ==
    LET a == GoMod(y, 19)
        b == GoDiv(y, 100)
        c == GoMod(y, 100)
        d == GoDiv(b, 4)
        e == GoMod(b, 4)
        f == GoDiv(b + 8, 25)
        g == GoDiv(b - f + 1, 3)
        h == GoMod(19 * a + b - d - g + 15, 30)
        i == GoDiv(c, 4)
        k == GoMod(c, 4)
        l == GoMod(4 + 2 * e + 2 * i - h - k, 7)
        m == GoDiv(a + 11 * h + 22 * l, 451)
    IN  [a |-> a, b |-> b, c |-> c, d |-> d, e |-> e, f |-> f, g |-> g,
         h |-> h, i |-> i, k |-> k, l |-> l, m |-> m,
         month |-> GoDiv(h + l - 7 * m + 114, 31),
         day   |-> GoMod(h + l - 7 * m + 114, 31) + 1]

\* EasterTerms with 31 for the constant 32 of l.
EasterTermsL31(y) ==
    LET a == GoMod(y, 19)
        b == GoDiv(y, 100)
        c == GoMod(y, 100)
        d == GoDiv(b, 4)
        e == GoMod(b, 4)
        f == GoDiv(b + 8, 25)
        g == GoDiv(b - f + 1, 3)
        h == GoMod(19 * a + b - d - g + 15, 30)
        i == GoDiv(c, 4)
        k == GoMod(c, 4)
        l == GoMod(31 + 2 * e + 2 * i - h - k, 7)
        m == GoDiv(a + 11 * h + 22 * l, 451)
    IN  [a |-> a, b |-> b, c |-> c, d |-> d, e |-> e, f |-> f, g |-> g,
         h |-> h, i |-> i, k |-> k, l |-> l, m |-> m,
         month |-> GoDiv(h + l - 7 * m + 114, 31),
         day   |-> GoMod(h + l - 7 * m + 114, 31) + 1]

\* The intermediate values of the anonymous Gregorian algorithm.
EasterTerms(y) ==
    LET a == GoMod(y, 19)
        b == GoDiv(y, 100)
        c == GoMod(y, 100)
        d == GoDiv(b, 4)
        e == GoMod(b, 4)
        f == GoDiv(b + 8, 25)
        g == GoDiv(b - f + 1, 3)
        h == GoMod(19 * a + b - d - g + 15, 30)
        i == GoDiv(c, 4)
        k == GoMod(c, 4)
        l == GoMod(32 + 2 * e + 2 * i - h - k, 7)
        m == GoDiv(a + 11 * h + 22 * l, 451)
    IN  [a |-> a, b |-> b, c |-> c, d |-> d, e |-> e, f |-> f, g |-> g,
         h |-> h, i |-> i, k |-> k, l |-> l, m |-> m,
         month |-> GoDiv(h + l - 7 * m + 114, 31),
         day   |-> GoMod(h + l - 7 * m + 114, 31) + 1]

\* Easter without the + 1 of the day.
EasterDayFromZero(y) ==
    LET v == EasterTerms(y)
    IN  Date(y, v.month, v.day - 1)

Easter(y) ==
    LET v == EasterTerms(y)
    IN  Date(y, v.month, v.day)

\* The scan with the offset passed to AddDate as months.
RECURSIVE scanFromMonths(_, _, _)
scanFromMonths(i, y, n) ==
    IF i > Len(RelativeToEasterDays)
    THEN <<ZeroTime, FALSE>>
    ELSE IF RelativeToEasterDays[i].Name = n
         THEN <<AddDate(Easter(y), 0, RelativeToEasterDays[i].Offset, 0), TRUE>>
         ELSE scanFromMonths(i + 1, y, n)

\* The scan stopping one entry short of the end of the table.
RECURSIVE scanFromShort(_, _, _)
scanFromShort(i, y, n) ==
    IF i >= Len(RelativeToEasterDays)
    THEN <<ZeroTime, FALSE>>
    ELSE IF RelativeToEasterDays[i].Name = n
         THEN <<AddDate(Easter(y), 0, 0, RelativeToEasterDays[i].Offset), TRUE>>
         ELSE scanFromShort(i + 1, y, n)

\* The first-match linear scan over the table, from entry i on.
RECURSIVE scanFrom(_, _, _)
scanFrom(i, y, n) ==
    IF i > Len(RelativeToEasterDays)
    THEN <<ZeroTime, FALSE>>
    ELSE IF RelativeToEasterDays[i].Name = n
         THEN <<AddDate(Easter(y), 0, 0, RelativeToEasterDays[i].Offset), TRUE>>
         ELSE scanFrom(i + 1, y, n)

\* relativeToEaster returns (time.Time, bool).
relativeToEaster(y, n) == scanFrom(1, y, n)

\* mustRelativeToEaster returning the date whatever the found flag says.
mustRelativeToEasterUnchecked(y, n) ==
    [panic |-> FALSE, value |-> relativeToEaster(y, n)[1]]

\* mustRelativeToEaster returns the date, or panics with a message.
mustRelativeToEaster(y, n) ==
    LET r == relativeToEaster(y, n)
    IN  IF r[2]
        THEN [panic |-> FALSE, value |-> r[1]]
        ELSE [panic |-> TRUE, msg |-> "computus: unknown feast/fast: " \o n]

AshWednesday(y) == mustRelativeToEaster(y, "Ash Wednesday")
PalmSunday(y) == mustRelativeToEaster(y, "Palm Sunday")
SpyWednesday(y) == mustRelativeToEaster(y, "Spy Wednesday")
HolyThursday(y) == mustRelativeToEaster(y, "Holy Thursday")
GoodFriday(y) == mustRelativeToEaster(y, "Good Friday")
HolySaturday(y) == mustRelativeToEaster(y, "Holy Saturday")
Ascension(y) == mustRelativeToEaster(y, "Ascension")
Pentecost(y) == mustRelativeToEaster(y, "Pentecost")
CorpusChristi(y) == mustRelativeToEaster(y, "Corpus Christi")
OctaveOfEaster(y) == mustRelativeToEaster(y, "The Octave of Easter (Low Sunday)")
LowSunday(y) == OctaveOfEaster(y)
EasterMonday(y) == mustRelativeToEaster(y, "Easter Monday")
EasterTuesday(y) == mustRelativeToEaster(y, "Easter Tuesday")
TrinitySunday(y) == mustRelativeToEaster(y, "Trinity Sunday")
EmberWednesdayLent(y) == mustRelativeToEaster(y, EmberWedLent)
EmberFridayLent(y) == mustRelativeToEaster(y, EmberFriLent)
EmberSaturdayLent(y) == mustRelativeToEaster(y, EmberSatLent)
EmberWednesdayPentecost(y) == mustRelativeToEaster(y, EmberWedPent)
EmberFridayPentecost(y) == mustRelativeToEaster(y, EmberFriPent)
EmberSaturdayPentecost(y) == mustRelativeToEaster(y, EmberSatPent)

----------------------------------------------------------------------------
(* The Sunday letters and the leap-year rule. *)

\* The leap-year rule without the centuries.
isLeapYearJulian(y) == GoMod(y, 4) = 0

\* The leap-year rule without the exception of the years divisible by 400.
isLeapYearNo400(y) ==
    IF GoMod(y, 4) # 0 THEN FALSE
    ELSE IF GoMod(y, 100) # 0 THEN TRUE
    ELSE FALSE

isLeapYear(y) ==
    IF GoMod(y, 4) # 0 THEN FALSE
    ELSE IF GoMod(y, 100) # 0 THEN TRUE
    ELSE IF GoMod(y, 400) # 0 THEN FALSE
    ELSE TRUE

letters == <<"A", "B", "C", "D", "E", "F", "G">>

\* letters[i : i+1] of the Go string, i counted from 0.
letterAt(i) == letters[i + 1]

\* SundayLetters with the weekday itself as the index of the first letter.
SundayLettersByWeekday(y) ==
    LET jan1    == Date(y, 1, 1)
        weekday == Weekday(jan1)
        letter  == letterAt(GoMod(weekday, 7))
    IN  IF isLeapYear(y)
        THEN <<letter, letterAt(GoMod(weekday - 1 + 7, 7))>>
        ELSE <<letter, "">>

\* SundayLetters with the first letter again as the second of a leap year.
SundayLettersNoShift(y) ==
    LET jan1    == Date(y, 1, 1)
        weekday == Weekday(jan1)
        letter  == letterAt(GoMod(7 - weekday, 7))
    IN  IF isLeapYear(y)
        THEN <<letter, letter>>
        ELSE <<letter, "">>

\* SundayLetters with the second letter one position later in the cycle.
SundayLettersForward(y) ==
    LET jan1    == Date(y, 1, 1)
        weekday == Weekday(jan1)
        letter  == letterAt(GoMod(7 - weekday, 7))
    IN  IF isLeapYear(y)
        THEN <<letter, letterAt(GoMod(7 - weekday + 1 + 7, 7))>>
        ELSE <<letter, "">>

SundayLetters(y) ==
    LET jan1    == Date(y, 1, 1)
        weekday == Weekday(jan1)
        letter  == letterAt(GoMod(7 - weekday, 7))
    IN  IF isLeapYear(y)
        THEN <<letter, letterAt(GoMod(7 - weekday - 1 + 7, 7))>>
        ELSE <<letter, "">>

----------------------------------------------------------------------------
(* The callers: every exported or package-level operation can be called    *)
(* with any year of Years (isLeapYear with any of AnyYears); the two       *)
(* resolvers with any name of Names.                                       *)

TableNames == {InitialRelativeToEasterDays[i].Name :
                   i \in 1..Len(InitialRelativeToEasterDays)}

OtherNames == {"Nonexistent Feast", "", "ash wednesday", "Ash Wednesday ",
               "Easter", "Low Sunday", "Ember Wednesday"}

Names == TableNames \cup OtherNames

Accessors == {"AshWednesday", "PalmSunday", "SpyWednesday", "HolyThursday",
              "GoodFriday", "HolySaturday", "Ascension", "Pentecost",
              "CorpusChristi", "OctaveOfEaster", "LowSunday", "EasterMonday",
              "EasterTuesday", "TrinitySunday", "EmberWednesdayLent",
              "EmberFridayLent", "EmberSaturdayLent",
              "EmberWednesdayPentecost", "EmberFridayPentecost",
              "EmberSaturdayPentecost"}

\* The call of the accessor called acc.
Accessor(acc, y) ==
    CASE acc = "AshWednesday" -> AshWednesday(y)
      [] acc = "PalmSunday" -> PalmSunday(y)
      [] acc = "SpyWednesday" -> SpyWednesday(y)
      [] acc = "HolyThursday" -> HolyThursday(y)
      [] acc = "GoodFriday" -> GoodFriday(y)
      [] acc = "HolySaturday" -> HolySaturday(y)
      [] acc = "Ascension" -> Ascension(y)
      [] acc = "Pentecost" -> Pentecost(y)
      [] acc = "CorpusChristi" -> CorpusChristi(y)
      [] acc = "OctaveOfEaster" -> OctaveOfEaster(y)
      [] acc = "LowSunday" -> LowSunday(y)
      [] acc = "EasterMonday" -> EasterMonday(y)
      [] acc = "EasterTuesday" -> EasterTuesday(y)
      [] acc = "TrinitySunday" -> TrinitySunday(y)
      [] acc = "EmberWednesdayLent" -> EmberWednesdayLent(y)
      [] acc = "EmberFridayLent" -> EmberFridayLent(y)
      [] acc = "EmberSaturdayLent" -> EmberSaturdayLent(y)
      [] acc = "EmberWednesdayPentecost" -> EmberWednesdayPentecost(y)
      [] acc = "EmberFridayPentecost" -> EmberFridayPentecost(y)
      [] acc = "EmberSaturdayPentecost" -> EmberSaturdayPentecost(y)

\* The caller has kept no call yet.
NoCall ==
    [set |-> FALSE, op |-> "none", year |-> BeginYear, name |-> "",
     pc |-> "idle", ret |-> <<>>, panicMsg |-> ""]

Init ==
    /\ RelativeToEasterDays = InitialRelativeToEasterDays
    /\ pc = "idle"
    /\ op = "none"
    /\ year = BeginYear
    /\ name = ""
    /\ ret = <<>>
    /\ panicMsg = ""
    /\ earlier = NoCall

\* A call of o that returns the values vals and that leaves the table
\* without its first entry.
ReturnsAndConsumes(o, y, n, vals) ==
    /\ pc' = "returned"
    /\ op' = o
    /\ year' = y
    /\ name' = n
    /\ ret' = vals
    /\ panicMsg' = ""
    /\ RelativeToEasterDays' =
           IF Len(RelativeToEasterDays) > 0
           THEN Tail(RelativeToEasterDays)
           ELSE RelativeToEasterDays
    /\ UNCHANGED earlier

\* A call of o that returns the values vals.
Returns(o, y, n, vals) ==
    /\ pc' = "returned"
    /\ op' = o
    /\ year' = y
    /\ name' = n
    /\ ret' = vals
    /\ panicMsg' = ""
    /\ UNCHANGED <<RelativeToEasterDays, earlier>>

\* A call of o that panics with msg.
Panics(o, y, n, msg) ==
    /\ pc' = "panicked"
    /\ op' = o
    /\ year' = y
    /\ name' = n
    /\ ret' = <<>>
    /\ panicMsg' = msg
    /\ UNCHANGED <<RelativeToEasterDays, earlier>>

\* A call of a function that returns a date or panics.
ReturnsOrPanics(o, y, n, r) ==
    IF r.panic THEN Panics(o, y, n, r.msg) ELSE Returns(o, y, n, <<r.value>>)

CallEaster ==
    /\ pc = "idle"
    /\ \E y \in Years : Returns("Easter", y, "", <<Easter(y)>>)

CallIsLeapYear ==
    /\ pc = "idle"
    /\ \E y \in AnyYears : Returns("isLeapYear", y, "", <<isLeapYear(y)>>)

CallSundayLetters ==
    /\ pc = "idle"
    /\ \E y \in Years : Returns("SundayLetters", y, "", SundayLetters(y))

CallRelativeToEaster ==
    /\ pc = "idle"
    /\ \E y \in Years, n \in Names :
           Returns("relativeToEaster", y, n, relativeToEaster(y, n))

CallMustRelativeToEaster ==
    /\ pc = "idle"
    /\ \E y \in Years, n \in Names :
           ReturnsOrPanics("mustRelativeToEaster", y, n, mustRelativeToEaster(y, n))

CallAccessor ==
    /\ pc = "idle"
    /\ \E y \in Years, acc \in Accessors :
           ReturnsOrPanics(acc, y, "", Accessor(acc, y))

\* The caller takes the result (or recovers the panic) and may call again:
\* nothing of the finished call is kept but the table.
Continue ==
    /\ pc \in {"returned", "panicked"}
    /\ pc' = "idle"
    /\ op' = "none"
    /\ year' = BeginYear
    /\ name' = ""
    /\ ret' = <<>>
    /\ panicMsg' = ""
    /\ UNCHANGED <<RelativeToEasterDays, earlier>>

Next ==
    \/ CallEaster
    \/ CallIsLeapYear
    \/ CallSundayLetters
    \/ CallRelativeToEaster
    \/ CallMustRelativeToEaster
    \/ CallAccessor
    \/ Continue

Spec == Init /\ [][Next]_vars

----------------------------------------------------------------------------
(* Repeated calls: the caller keeps one call (its arguments and outcome)   *)
(* made after any calls, then goes on calling, every operation with every  *)
(* name and the years of KeptYears, the kept call included.                *)

KeptYears == {BeginYear, 2000, 2023, EndYear}

\* The caller keeps the call that has just ended.
Keep ==
    /\ pc \in {"returned", "panicked"}
    /\ earlier.set = FALSE
    /\ year \in KeptYears
    /\ earlier' = [set |-> TRUE, op |-> op, year |-> year, name |-> name,
                   pc |-> pc, ret |-> ret, panicMsg |-> panicMsg]
    /\ pc' = "idle"
    /\ op' = "none"
    /\ year' = BeginYear
    /\ name' = ""
    /\ ret' = <<>>
    /\ panicMsg' = ""
    /\ UNCHANGED RelativeToEasterDays

\* The call of operation o with year y and name n.
Invoke(o, y, n) ==
    CASE o = "Easter" -> Returns(o, y, n, <<Easter(y)>>)
      [] o = "isLeapYear" -> Returns(o, y, n, <<isLeapYear(y)>>)
      [] o = "SundayLetters" -> Returns(o, y, n, SundayLetters(y))
      [] o = "relativeToEaster" -> Returns(o, y, n, relativeToEaster(y, n))
      [] o = "mustRelativeToEaster" ->
             ReturnsOrPanics(o, y, n, mustRelativeToEaster(y, n))
      [] o \in Accessors -> ReturnsOrPanics(o, y, n, Accessor(o, y))

\* The operations, and the years and names each is called with: those of
\* Next before the caller has kept a call, the years of KeptYears after.
Operations ==
    {"Easter", "isLeapYear", "SundayLetters", "relativeToEaster",
     "mustRelativeToEaster"} \cup Accessors

YearsOf(o) ==
    IF earlier.set THEN KeptYears
    ELSE IF o = "isLeapYear" THEN AnyYears ELSE Years

NamesOf(o) ==
    IF o \in {"relativeToEaster", "mustRelativeToEaster"} THEN Names ELSE {""}

\* A call of any operation, before or after the kept call.
Call ==
    /\ pc = "idle"
    /\ \E o \in Operations :
           \E y \in YearsOf(o), n \in NamesOf(o) : Invoke(o, y, n)

RepeatNext ==
    \/ Call
    \/ Keep
    \/ Continue

RepeatSpec == Init /\ [][RepeatNext]_vars

----------------------------------------------------------------------------
(* The checked properties. *)

TestYears == BeginYear..EndYear

\* The Names of the table.
EntryNames == {RelativeToEasterDays[i].Name : i \in 1..Len(RelativeToEasterDays)}

\* y is divisible by n.
Divides(n, y) == y % n = 0

\* The Gregorian leap years.
GregorianLeap(y) == Divides(4, y) /\ (~Divides(100, y) \/ Divides(400, y))

\* A call of o has returned.
Returned(o) == pc = "returned" /\ op = o

\* A call of o has ended, by a return or by a panic.
Ended(o) == pc \in {"returned", "panicked"} /\ op = o

\* C1: for every year Y in [1583, 3000], Easter(Y) is a date of year Y that
\* falls in March with day >= 22 or in April with day <= 25.
C1_EasterInRange ==
    (Returned("Easter") /\ year \in TestYears) =>
        LET e == ret[1]
        IN  /\ TimeYear(e) = year
            /\ \/ TimeMonth(e) = 3 /\ TimeDay(e) >= 22 /\ TimeDay(e) <= 31
               \/ TimeMonth(e) = 4 /\ TimeDay(e) >= 1 /\ TimeDay(e) <= 25

\* Easter(1818) has returned March 22, the earliest date of the range.
C1_Witness ==
    Returned("Easter") /\ year = 1818 /\ Format(ret[1]) = <<1818, 3, 22>>

\* The table of historically verified dates, each "YYYY-MM-DD" as a triple.
VerifiedEasterDates ==
    [y \in {1583, 1666, 1693, 1818, 1900, 1954, 1970, 1999, 2000, 2010, 2016,
            2020, 2021, 2022, 2023, 2024, 2025, 2026, 2038} |->
        CASE y = 1583 -> <<1583, 4, 10>>
          [] y = 1666 -> <<1666, 4, 25>>
          [] y = 1693 -> <<1693, 3, 22>>
          [] y = 1818 -> <<1818, 3, 22>>
          [] y = 1900 -> <<1900, 4, 15>>
          [] y = 1954 -> <<1954, 4, 18>>
          [] y = 1970 -> <<1970, 3, 29>>
          [] y = 1999 -> <<1999, 4, 4>>
          [] y = 2000 -> <<2000, 4, 23>>
          [] y = 2010 -> <<2010, 4, 4>>
          [] y = 2016 -> <<2016, 3, 27>>
          [] y = 2020 -> <<2020, 4, 12>>
          [] y = 2021 -> <<2021, 4, 4>>
          [] y = 2022 -> <<2022, 4, 17>>
          [] y = 2023 -> <<2023, 4, 9>>
          [] y = 2024 -> <<2024, 3, 31>>
          [] y = 2025 -> <<2025, 4, 20>>
          [] y = 2026 -> <<2026, 4, 5>>
          [] y = 2038 -> <<2038, 4, 25>>]

C3_EasterIsSunday ==
    (Returned("Easter") /\ year \in TestYears) => Weekday(ret[1]) = 0

\* Easter(2024) has returned March 31, 2024, a Sunday.
C3_Witness ==
    /\ Returned("Easter")
    /\ year = 2024
    /\ Format(ret[1]) = <<2024, 3, 31>>
    /\ Weekday(ret[1]) = 0

\* C4: for every entry (Name, Offset) of the table and every year Y in
\* [1583, 3000], relativeToEaster(Y, Name) returns found = true and a date
\* exactly Offset days after Easter(Y) (before, when Offset is negative).
C4_OffsetFromEaster ==
    (Ended("relativeToEaster") /\ year \in TestYears) =>
        \A i \in 1..Len(RelativeToEasterDays) :
            RelativeToEasterDays[i].Name = name =>
                /\ pc = "returned"
                /\ ret[2] = TRUE
                /\ ret[1] - Easter(year) = RelativeToEasterDays[i].Offset

\* relativeToEaster(2024, "Septuagesima Sunday") has returned January 28,
\* 2024: 63 days before Easter, across the February of a leap year.
C4_Witness ==
    /\ Returned("relativeToEaster")
    /\ year = 2024
    /\ name = "Septuagesima Sunday"
    /\ ret[2] = TRUE
    /\ Format(ret[1]) = <<2024, 1, 28>>
    /\ Easter(2024) - ret[1] = 63

\* C5: for any year and any name, relativeToEaster returns found = true if
\* and only if the name equals the Name of some entry of the table; with no
\* such entry it returns found = false with the zero time, and never panics.
C5_FoundIffInTable ==
    Ended("relativeToEaster") =>
        /\ pc = "returned"
        /\ Len(ret) = 2
        /\ ret[2] = (name \in EntryNames)
        /\ (name \notin EntryNames => Format(ret[1]) = <<1, 1, 1>>)

\* relativeToEaster(2026, "Nonexistent Feast") has returned not found.
C5_Witness ==
    /\ Returned("relativeToEaster")
    /\ year = 2026
    /\ name = "Nonexistent Feast"
    /\ name \notin EntryNames
    /\ ret[2] = FALSE

\* C6: mustRelativeToEaster(Y, name) returns exactly the date that
\* relativeToEaster(Y, name) returns when that reports found = true, and
\* panics with a message holding the name when it reports found = false; it
\* never returns a date for a name absent from the table.
C6_MustReturnsOrPanics ==
    Ended("mustRelativeToEaster") =>
        LET r == relativeToEaster(year, name)
        IN  /\ r[2] = TRUE =>
                pc = "returned" /\ ret = <<r[1]>> /\ panicMsg = ""
            /\ r[2] = FALSE =>
                /\ pc = "panicked"
                /\ ret = <<>>
                /\ panicMsg = "computus: unknown feast/fast: " \o name
            /\ pc = "returned" => name \in EntryNames

\* mustRelativeToEaster(2026, "Nonexistent Feast") has panicked.
C6_Witness ==
    /\ pc = "panicked"
    /\ op = "mustRelativeToEaster"
    /\ year = 2026
    /\ name = "Nonexistent Feast"
    /\ panicMsg = "computus: unknown feast/fast: Nonexistent Feast"

\* The day count of each accessor's feast.
AccessorShift ==
    [acc \in Accessors |->
        CASE acc = "AshWednesday" -> -46
          [] acc = "EmberWednesdayLent" -> -39
          [] acc = "EmberFridayLent" -> -37
          [] acc = "EmberSaturdayLent" -> -36
          [] acc = "PalmSunday" -> -7
          [] acc = "SpyWednesday" -> -4
          [] acc = "HolyThursday" -> -3
          [] acc = "GoodFriday" -> -2
          [] acc = "HolySaturday" -> -1
          [] acc = "EasterMonday" -> 1
          [] acc = "EasterTuesday" -> 2
          [] acc = "OctaveOfEaster" -> 7
          [] acc = "LowSunday" -> 7
          [] acc = "Ascension" -> 39
          [] acc = "Pentecost" -> 49
          [] acc = "EmberWednesdayPentecost" -> 52
          [] acc = "EmberFridayPentecost" -> 54
          [] acc = "EmberSaturdayPentecost" -> 55
          [] acc = "TrinitySunday" -> 56
          [] acc = "CorpusChristi" -> 60]

C8_IsLeapYearRule ==
    Returned("isLeapYear") =>
        /\ ret[1] = GregorianLeap(year)
        /\ (year \in {2000, 2020, 2400} => ret[1] = TRUE)
        /\ (year \in {1900, 2021, 2100} => ret[1] = FALSE)

\* isLeapYear(2400) has returned true.
C8_Witness == Returned("isLeapYear") /\ year = 2400 /\ ret[1] = TRUE

\* The letters 'A'..'G'.
LetterSet == {"A", "B", "C", "D", "E", "F", "G"}

\* C9: for every year Y in [1583, 3000], SundayLetters(Y) returns a first
\* letter that is one of 'A'..'G', and a second letter that is one of
\* 'A'..'G' when Y is a leap year and the empty string when it is not.
C9_SundayLettersShape ==
    (Returned("SundayLetters") /\ year \in TestYears) =>
        /\ Len(ret) = 2
        /\ ret[1] \in LetterSet
        /\ (GregorianLeap(year) => ret[2] \in LetterSet)
        /\ (~GregorianLeap(year) => ret[2] = "")

\* SundayLetters(1900) has returned one letter: 1900 is no leap year.
C9_Witness ==
    /\ Returned("SundayLetters")
    /\ year = 1900
    /\ ret[1] \in LetterSet
    /\ ret[2] = ""

\* The letters the tests document.
DocumentedLetters ==
    [y \in {2024, 1996, 2000, 2023, 2021, 2019} |->
        CASE y = 2024 -> <<"G", "F">>
          [] y = 1996 -> <<"G", "F">>
          [] y = 2000 -> <<"B", "A">>
          [] y = 2023 -> <<"A", "">>
          [] y = 2021 -> <<"C", "">>
          [] y = 2019 -> <<"F", "">>]

\* C10: SundayLetters returns the documented letters for the tested years:
\* ("G","F") for 2024 and 1996, ("B","A") for 2000, ("A","") for 2023,
\* ("C","") for 2021 and ("F","") for 2019.
C10_SundayLettersDocumented ==
    (Returned("SundayLetters") /\ year \in DOMAIN DocumentedLetters) =>
        ret = DocumentedLetters[year]

\* SundayLetters(2000) has returned ("B", "A").
C10_Witness == Returned("SundayLetters") /\ year = 2000 /\ ret = <<"B", "A">>

\* C11: no two entries of the table have the same Name, so the first-match
\* scan of relativeToEaster resolves every table name to the offset of its
\* one and only entry.
C11_UniqueNames ==
    /\ \A i, j \in 1..Len(RelativeToEasterDays) :
           RelativeToEasterDays[i].Name = RelativeToEasterDays[j].Name => i = j
    /\ (Ended("relativeToEaster") /\ name \in EntryNames) =>
           /\ Cardinality({i \in 1..Len(RelativeToEasterDays) :
                              RelativeToEasterDays[i].Name = name}) = 1
           /\ \A i \in 1..Len(RelativeToEasterDays) :
                  RelativeToEasterDays[i].Name = name =>
                      ret = <<AddDate(Easter(year), 0, 0,
                                      RelativeToEasterDays[i].Offset), TRUE>>

\* relativeToEaster(2025, "Easter Tuesday") has returned April 22, 2025, by
\* the offset of the fifteenth entry, the only one of that name.
C11_Witness ==
    /\ Returned("relativeToEaster")
    /\ year = 2025
    /\ name = "Easter Tuesday"
    /\ RelativeToEasterDays[15].Name = name
    /\ ret[1] - Easter(2025) = RelativeToEasterDays[15].Offset
    /\ Format(ret[1]) = <<2025, 4, 22>>

\* The weekday of January 1 of year y (0 = Sunday .. 6 = Saturday), by
\* Gauss's formula for the proleptic Gregorian calendar.
Jan1Weekday(y) ==
    (1 + 5 * ((y - 1) % 4) + 4 * ((y - 1) % 100) + 6 * ((y - 1) % 400)) % 7

\* The letter before each letter in the cycle: 'A' is preceded by 'G'.
LetterBefore ==
    [x \in LetterSet |->
        CASE x = "A" -> "G"
          [] x = "B" -> "A"
          [] x = "C" -> "B"
          [] x = "D" -> "C"
          [] x = "E" -> "D"
          [] x = "F" -> "E"
          [] x = "G" -> "F"]

\* The character at index i (from 0) of "ABCDEFG".
Alphabet == <<"A", "B", "C", "D", "E", "F", "G">>

\* C13: for every year Y in [1583, 3000], with w the weekday of January 1 of
\* Y, the first letter of SundayLetters(Y) is the character at index
\* (7 - w) mod 7 of "ABCDEFG" (w = 0 gives 'A'), and when Y is leap the
\* second letter is the character at index (7 - w - 1 + 7) mod 7, the letter
\* just before the first in the cycle, 'A' preceded by 'G'.
C13_LetterIndices ==
    (Returned("SundayLetters") /\ year \in TestYears) =>
        LET w == Jan1Weekday(year)
        IN  /\ ret[1] = Alphabet[((7 - w) % 7) + 1]
            /\ (w = 0 => ret[1] = "A")
            /\ GregorianLeap(year) =>
                   /\ ret[2] = Alphabet[((7 - w - 1 + 7) % 7) + 1]
                   /\ ret[2] = LetterBefore[ret[1]]

\* SundayLetters(2012) has returned ("A", "G"): January 1, 2012 is a Sunday
\* of a leap year, so the second letter wraps around to 'G'.
C13_Witness ==
    /\ Returned("SundayLetters")
    /\ year = 2012
    /\ Jan1Weekday(2012) = 0
    /\ ret = <<"A", "G">>

\* The days of month m of year y.
DaysInMonth(y, m) ==
    IF m = 2 THEN (IF GregorianLeap(y) THEN 29 ELSE 28)
    ELSE IF m \in {4, 6, 9, 11} THEN 30 ELSE 31

\* The days of a common year before month m.
CommonDaysBefore == <<0, 31, 59, 90, 120, 151, 181, 212, 243, 273, 304, 334>>

\* The calendar letter of month m, day d: A..G cyclically over the days of a
\* common year from January 1 = 'A' (the intercalary day has none).
CalendarLetter(m, d) == Alphabet[((CommonDaysBefore[m] + d - 1) % 7) + 1]

\* Month m, day d of year y is a Sunday: counted from the weekday of January 1.
IsSunday(y, m, d) ==
    LET k == CommonDaysBefore[m] + d - 1
             + (IF GregorianLeap(y) /\ m >= 3 THEN 1 ELSE 0)
    IN  (Jan1Weekday(y) + k) % 7 = 0

\* C14: the one-position shift agrees with the classical bissextile-letter
\* convention: for every leap year Y in [1583, 3000] every Sunday from
\* January 1 through February 24 carries the first letter of SundayLetters(Y)
\* and every Sunday from March 1 through December 31 the second; for every
\* non-leap year every Sunday of the year carries the first letter.
C14_BissextileConvention ==
    (Returned("SundayLetters") /\ year \in TestYears) =>
        \A m \in 1..12 : \A d \in 1..DaysInMonth(year, m) :
            IsSunday(year, m, d) =>
                IF GregorianLeap(year)
                THEN /\ (m = 1 \/ (m = 2 /\ d <= 24)) => CalendarLetter(m, d) = ret[1]
                     /\ m >= 3 => CalendarLetter(m, d) = ret[2]
                ELSE CalendarLetter(m, d) = ret[1]

\* SundayLetters(2024) has returned ("G", "F"): the Sunday January 7, 2024
\* carries 'G' and the Sunday March 31, 2024 carries 'F'.
C14_Witness ==
    /\ Returned("SundayLetters")
    /\ year = 2024
    /\ GregorianLeap(2024)
    /\ IsSunday(2024, 1, 7) /\ CalendarLetter(1, 7) = ret[1]
    /\ IsSunday(2024, 3, 31) /\ CalendarLetter(3, 31) = ret[2]
    /\ ret[1] # ret[2]

\* The divisions and remainders Easter computes for year y, each as the
\* pair of its dividend and its divisor.
EasterDivisions(y) ==
    LET v == EasterTerms(y)
    IN  {<<y, 19>>, <<y, 100>>, <<v.b, 4>>, <<v.b + 8, 25>>,
         <<v.b - v.f + 1, 3>>,
         <<19 * v.a + v.b - v.d - v.g + 15, 30>>,
         <<v.c, 4>>,
         <<32 + 2 * v.e + 2 * v.i - v.h - v.k, 7>>,
         <<v.a + 11 * v.h + 22 * v.l, 451>>,
         <<v.h + v.l - 7 * v.m + 114, 31>>}

\* The values Easter computes on the way for year y: the named ones, the
\* products, and the partial sums of each expression from left to right.
EasterValues(y) ==
    LET v == EasterTerms(y)
    IN  {y, v.a, v.b, v.c, v.d, v.e, v.f, v.g, v.h, v.i, v.k, v.l, v.m,
         v.month, v.day,
         v.b + 8, v.b - v.f, v.b - v.f + 1,
         19 * v.a, 19 * v.a + v.b, 19 * v.a + v.b - v.d,
         19 * v.a + v.b - v.d - v.g, 19 * v.a + v.b - v.d - v.g + 15,
         2 * v.e, 32 + 2 * v.e, 2 * v.i, 32 + 2 * v.e + 2 * v.i,
         32 + 2 * v.e + 2 * v.i - v.h, 32 + 2 * v.e + 2 * v.i - v.h - v.k,
         11 * v.h, v.a + 11 * v.h, 22 * v.l, v.a + 11 * v.h + 22 * v.l,
         v.h + v.l, 7 * v.m, v.h + v.l - 7 * v.m, v.h + v.l - 7 * v.m + 114}

\* C15: for every year Y in [1583, 3000], every intermediate value of Easter
\* (a .. m and every dividend of a division or modulo) lies in [0, 32767];
\* hence truncating and floored division and modulo give the same result and
\* nothing overflows a 16-bit signed integer.
C15_EasterValuesInRange ==
    (Returned("Easter") /\ year \in TestYears) =>
        /\ \A x \in EasterValues(year) : 0 <= x /\ x <= 32767
        /\ \A q \in EasterDivisions(year) :
               /\ 0 <= q[1] /\ q[1] <= 32767
               /\ GoDiv(q[1], q[2]) = q[1] \div q[2]
               /\ GoMod(q[1], q[2]) = q[1] % q[2]
        /\ ret[1] = Date(year, EasterTerms(year).month, EasterTerms(year).day)

\* Easter(2801) has returned April 22, 2801; the dividend of l is 2 there,
\* the smallest it gets in the range.
C15_Witness ==
    /\ Returned("Easter")
    /\ year = 2801
    /\ <<2, 7>> \in EasterDivisions(2801)
    /\ EasterTerms(2801).l = 2
    /\ Format(ret[1]) = <<2801, EasterTerms(2801).month, EasterTerms(2801).day>>

\* The entries that fall on a Sunday by their name.
SundayNames ==
    {"Septuagesima Sunday",
     "Sexagesima Sunday",
     "Quinguagesima Sunday",
     "Passion Sunday",
     "Palm Sunday",
     "The Octave of Easter (Low Sunday)",
     "Trinity Sunday",
     "Pentecost"}

\* The entries that fall on a Monday by their name.
MondayNames ==
    {"Easter Monday"}

\* The entries that fall on a Tuesday by their name.
TuesdayNames ==
    {"Easter Tuesday"}

\* The entries that fall on a Wednesday by their name.
WednesdayNames ==
    {"Ash Wednesday",
     "Spy Wednesday",
     "Ember Wednesday (Lent)",
     "Ember Wednesday (Pentecost)"}

\* The entries that fall on a Thursday by their name.
ThursdayNames ==
    {"Holy Thursday",
     "Ascension",
     "Corpus Christi"}

\* The entries that fall on a Friday by their name.
FridayNames ==
    {"Good Friday",
     "Ember Friday (Lent)",
     "Ember Friday (Pentecost)"}

\* The entries that fall on a Saturday by their name.
SaturdayNames ==
    {"Holy Saturday",
     "Ember Saturday (Lent)",
     "Ember Saturday (Pentecost)"}

\* The weekday (0 = Sunday .. 6 = Saturday) the name n states.
StatedWeekday(n) ==
    CASE n \in SundayNames -> 0
      [] n \in MondayNames -> 1
      [] n \in TuesdayNames -> 2
      [] n \in WednesdayNames -> 3
      [] n \in ThursdayNames -> 4
      [] n \in FridayNames -> 5
      [] n \in SaturdayNames -> 6

WeekdayNames ==
    SundayNames \cup MondayNames \cup TuesdayNames \cup WednesdayNames
        \cup ThursdayNames \cup FridayNames \cup SaturdayNames

\* C16: for every year Y in [1583, 3000] and every table entry whose name
\* states a weekday, the resolved date falls on that weekday.
C16_StatedWeekdays ==
    (Ended("relativeToEaster") /\ year \in TestYears /\ name \in WeekdayNames) =>
        /\ pc = "returned"
        /\ ret[2] = TRUE
        /\ Weekday(ret[1]) = StatedWeekday(name)

\* relativeToEaster(2024, "Ascension") has returned May 9, 2024, a Thursday.
C16_Witness ==
    /\ Returned("relativeToEaster")
    /\ year = 2024
    /\ name = "Ascension"
    /\ name \in EntryNames
    /\ Format(ret[1]) = <<2024, 5, 9>>
    /\ Weekday(ret[1]) = 4

\* Month m1, day d1 is no later in a year than month m2, day d2.
NoLater(m1, d1, m2, d2) == m1 < m2 \/ (m1 = m2 /\ d1 <= d2)

\* C17: for every year Y in [1583, 3000] and every table entry, the date
\* relativeToEaster(Y, Name) returns is a valid calendar date of the same
\* year Y, no earlier than January 18 and no later than June 24; the table's
\* smallest offset is -63 (Septuagesima Sunday) and its largest is +60
\* (Corpus Christi), so the shift never crosses a year boundary.
C17_SameYearWindow ==
    /\ \A i \in 1..Len(RelativeToEasterDays) :
           LET r == RelativeToEasterDays[i]
           IN  /\ -63 <= r.Offset /\ r.Offset <= 60
               /\ r.Offset = -63 <=> r.Name = "Septuagesima Sunday"
               /\ r.Offset = 60 <=> r.Name = "Corpus Christi"
    /\ {"Septuagesima Sunday", "Corpus Christi"} \subseteq EntryNames
    /\ (Ended("relativeToEaster") /\ year \in TestYears /\ name \in EntryNames) =>
           LET t == ret[1]
               m == TimeMonth(t)
               d == TimeDay(t)
           IN  /\ pc = "returned"
               /\ TimeYear(t) = year
               /\ m \in 1..12
               /\ d \in 1..DaysInMonth(year, m)
               /\ NoLater(1, 18, m, d)
               /\ NoLater(m, d, 6, 24)

\* relativeToEaster(1818, "Septuagesima Sunday") has returned January 18,
\* 1818: the earliest Easter shifted by the smallest offset.
C17_Witness ==
    /\ Returned("relativeToEaster")
    /\ year = 1818
    /\ name = "Septuagesima Sunday"
    /\ Format(Easter(1818)) = <<1818, 3, 22>>
    /\ Format(ret[1]) = <<1818, 1, 18>>

\* relativeToEaster(1666, "Corpus Christi") has returned June 24, 1666: the
\* latest Easter shifted by the largest offset.
C17_WitnessLatest ==
    /\ Returned("relativeToEaster")
    /\ year = 1666
    /\ name = "Corpus Christi"
    /\ Format(ret[1]) = <<1666, 6, 24>>

C12_WitnessPanic ==
    /\ earlier.set = TRUE
    /\ earlier.op = "mustRelativeToEaster"
    /\ earlier.year = 2000
    /\ earlier.name = "Nonexistent Feast"
    /\ earlier.pc = "panicked"
    /\ pc = "panicked"
    /\ op = "mustRelativeToEaster"
    /\ year = 2000
    /\ name = "Nonexistent Feast"

====
